---------------------------- MODULE Spec2Model ----------------------------
(***************************************************************************)
(* Arc Welder: the geometric arc-fitting engine.                           *)
(*                                                                         *)
(* Numbers.  The program computes in doubles.  Here every length is an     *)
(* integer number of length units (one unit = 0.01 mm) and every angle an  *)
(* integer number of angle units (one unit = 0.0001 rad).  Products of     *)
(* integers are exact, as they are in doubles for the sizes used; a        *)
(* division and a square root round to the nearest unit (Div, Sqrt); acos  *)
(* is tabulated to the nearest angle unit (ACos).  A result that is NaN in *)
(* the program (0/0) is handled where it arises.                           *)
(***************************************************************************)
EXTENDS Integers, Sequences, FiniteSets, TLC

VARIABLES
    points_,                 \* segmented_shape::points_ : the point window
    e_relative_,             \* segmented_shape::e_relative_ (e_relative_sum)
    original_shape_length_,  \* segmented_shape::original_shape_length_
    is_shape_,               \* segmented_shape::is_shape_
    arc_circle_,             \* segmented_arc::arc_circle_
    resolution_mm_,          \* segmented_shape::resolution_mm_
    min_segments_,           \* segmented_shape::min_segments_
    max_segments_,           \* segmented_shape::max_segments_
    ret,                     \* what the last try_add_point returned
    popped,                  \* the points popped since the window was last cleared
    user_resolution,         \* the resolution most recently supplied by the user
    capacity,                \* the max_segments the accumulator was constructed with
    other_,                  \* a second accumulator, the source of an assignment
    call,                    \* a call of a pure function: its arguments and results
    pc,                      \* the driver's position
    input,                   \* the driver's input: the endpoints of the program
    next_,                   \* index in input of the next endpoint to feed
    emitted,                 \* input indices already emitted by the driver
    window_ix                \* input indices of the points held in the window

vars == <<points_, e_relative_, original_shape_length_, is_shape_, arc_circle_,
          resolution_mm_, min_segments_, max_segments_, ret, popped,
          user_resolution, capacity, other_, call, pc, input, next_, emitted, window_ix>>

-----------------------------------------------------------------------------
(* Arithmetic of the fixed-point image of double.                          *)

\* The value of an expression that is computed once and named: S is {e : x \in {v}},
\* the expression e with x for the value v.
The(S) == CHOOSE x \in S : TRUE

Abs(x) == IF x < 0 THEN -x ELSE x

\* n / d rounded to the nearest unit (d # 0).
Div(n, d) ==
    LET s == IF (n < 0) = (d < 0) THEN 1 ELSE -1
        q == (2 * Abs(n) + Abs(d)) \div (2 * Abs(d))
    IN  s * q

RECURSIVE SqrtIter(_, _)
\* Newton's iteration from the guess g (g * g >= n).
SqrtIter(n, g) ==
    The({IF h >= g THEN g ELSE SqrtIter(n, h) : h \in {(g + n \div g) \div 2}})

\* The integer part of sqrt(n).
SqrtFloor(n) ==
    SqrtIter(n, IF n < 1024 THEN 32 ELSE IF n < 1048576 THEN 1024 ELSE 46341)

\* sqrt(v) rounded to the nearest unit (v >= 0).
Sqrt(v) ==
    The({IF n = 0 THEN 0
         ELSE The({IF n - f * f > f THEN f + 1 ELSE f : f \in {SqrtFloor(n)}}) :
             n \in {v}})

\* pi in angle units.
PI_DOUBLE == 31416

\* acos at the cosines of the chords between the sample points of a circle
\* (<<cosine * 100, angle>>), each angle to the nearest angle unit.
ACosTable ==
    << <<100, 0>>, <<96, 2838>>, <<80, 6435>>, <<60, 9273>>, <<28, 12870>>,
       <<0, 15708>>, <<-28, 18546>>, <<-60, 22143>>, <<-80, 24981>>,
       <<-96, 28578>>, <<-100, 31416>> >>

\* acos(num / den): the tabulated angle of the nearest tabulated cosine.
ACos(num, den) ==
    The({ACosTable[CHOOSE i \in 1..Len(ACosTable) :
                       \A j \in 1..Len(ACosTable) :
                           Abs(ACosTable[i][1] - c) <= Abs(ACosTable[j][1] - c)][2] :
             c \in {Div(num * 100, den)}})

\* The structural epsilon.  It is far below one unit, and the compared values
\* are whole units: a difference is below it exactly when it is below 1.
CIRCLE_FLOATING_POINT_TOLERANCE == 1

\* Below this swept angle the direction of an arc is not trusted.
MIN_ALLOWED_ARC_THETA == 10

is_zero(x, tolerance) == Abs(x) < tolerance

is_equal(x, y, tolerance) == Abs(x - y) < tolerance

less_than(x, y, tolerance) == x < y /\ ~is_equal(x, y, tolerance)

get_cartesian_distance(x1, y1, x2, y2) ==
    Sqrt((x1 - x2) * (x1 - x2) + (y1 - y2) * (y1 - y2))

-----------------------------------------------------------------------------
(* Points, vectors, circles.                                               *)

Point(x, y, z, e) == [x |-> x, y |-> y, z |-> z, e_relative |-> e]

Vector(x, y, z) == [x |-> x, y |-> y, z |-> z]

Circle(x, y, z, r) == [center |-> [x |-> x, y |-> y, z |-> z], radius |-> r]

\* circle::circle(): center (0,0,0), radius 0.
DefaultCircle == Circle(0, 0, 0, 0)

\* vector operator -(point& lhs, point& rhs); a circle's center is a point.
PointMinus(lhs, rhs) == Vector(lhs.x - rhs.x, lhs.y - rhs.y, lhs.z - rhs.z)

get_magnitude(v) == Sqrt(v.x * v.x + v.y * v.y + v.z * v.z)

cross_product_magnitude(v1, v2) == v1.x * v2.y - v1.y * v2.x

is_point_on_circle_unsigned(c, p, resolution_mm) ==
    \E difference \in
            {get_cartesian_distance(p.x, p.y, c.center.x, c.center.y) - c.radius} :
        less_than(difference, resolution_mm, CIRCLE_FLOATING_POINT_TOLERANCE)

is_point_on_circle(c, p, resolution_mm) ==
    \E difference \in
            {Abs(get_cartesian_distance(p.x, p.y, c.center.x, c.center.y) - c.radius)} :
        less_than(difference, resolution_mm, CIRCLE_FLOATING_POINT_TOLERANCE)

\* The determinant a of try_create_circle.
circle_a(p1, p2, p3) ==
    p1.x * (p2.y - p3.y) - p1.y * (p2.x - p3.x) + p2.x * p3.y - p3.x * p2.y

circle_b(p1, p2, p3) ==
      (p1.x * p1.x + p1.y * p1.y) * (p3.y - p2.y)
    + (p2.x * p2.x + p2.y * p2.y) * (p1.y - p3.y)
    + (p3.x * p3.x + p3.y * p3.y) * (p2.y - p1.y)

circle_c_swapped(p1, p2, p3) ==
      (p1.x * p1.x + p1.y * p1.y) * (p2.x - p3.x)
    + (p2.x * p2.x + p2.y * p2.y) * (p1.x - p3.x)
    + (p3.x * p3.x + p3.y * p3.y) * (p1.x - p2.x)

circle_c(p1, p2, p3) ==
      (p1.x * p1.x + p1.y * p1.y) * (p2.x - p3.x)
    + (p2.x * p2.x + p2.y * p2.y) * (p3.x - p1.x)
    + (p3.x * p3.x + p3.y * p3.y) * (p1.x - p2.x)

\* circle::try_create_circle: <<returned, new_circle afterwards>>.
try_create_circle(p1, p2, p3, new_circle) ==
    The({IF is_zero(a, CIRCLE_FLOATING_POINT_TOLERANCE)
         THEN <<FALSE, new_circle>>
         ELSE The({<<TRUE, Circle(x, y, p1.z, get_cartesian_distance(x, y, p1.x, p1.y))>> :
                       x \in {Div(-circle_b(p1, p2, p3), 2 * a)},
                       y \in {Div(-circle_c(p1, p2, p3), 2 * a)}}) :
             a \in {circle_a(p1, p2, p3)}})

\* circle::get_radians: the short angle between two points of the circle.
get_radians(c, p1, p2) ==
    The({ACos(two_r_sq - distance * distance, two_r_sq) :
             distance \in {get_cartesian_distance(p1.x, p1.y, p2.x, p2.y)},
             two_r_sq \in {2 * c.radius * c.radius}})

\* circle::get_closest_point (p is not the center: see try_create_arc).
get_closest_point(c, p) ==
    The({Point(c.center.x + Div(v.x * c.radius, mag),
               c.center.y + Div(v.y * c.radius, mag),
               c.center.z + Div(v.z * c.radius, mag),
               0) :
             <<v, mag>> \in {<<PointMinus(p, c.center),
                               get_magnitude(PointMinus(p, c.center))>>}})

-----------------------------------------------------------------------------
(* Arcs.                                                                   *)

NoArc ==
    [center |-> [x |-> 0, y |-> 0, z |-> 0], radius |-> 0,
     start_point |-> Point(0, 0, 0, 0), end_point |-> Point(0, 0, 0, 0),
     length |-> 0, angle_radians |-> 0]

find_angle_short_only(p1_p2_rad, p2_p3_rad, p3_p1_rad) ==
    LET two_pi == 2 * PI_DOUBLE
        tol == CIRCLE_FLOATING_POINT_TOLERANCE
    IN  IF is_equal(p1_p2_rad + p2_p3_rad + p3_p1_rad, two_pi, tol)
        THEN <<TRUE, p1_p2_rad, p2_p3_rad>>
        ELSE IF is_equal(p1_p2_rad + p2_p3_rad + (two_pi - p3_p1_rad), two_pi, tol)
        THEN <<TRUE, p2_p3_rad, p1_p2_rad>>
        ELSE IF is_equal((two_pi - p1_p2_rad) + p2_p3_rad + p3_p1_rad, two_pi, tol)
        THEN <<TRUE, p1_p2_rad, p2_p3_rad>>
        ELSE <<FALSE, 0, 0>>

\* The four sums tried, in the order tried: <<found, angle_1, angle_2>>.
find_angle(p1_p2_rad, p2_p3_rad, p3_p1_rad) ==
    LET two_pi == 2 * PI_DOUBLE
        tol == CIRCLE_FLOATING_POINT_TOLERANCE
        p1_p2_rad_lg == two_pi - p1_p2_rad
        p2_p3_rad_lg == two_pi - p2_p3_rad
    IN  IF is_equal(p1_p2_rad + p2_p3_rad + p3_p1_rad, two_pi, tol)
        THEN <<TRUE, p1_p2_rad, p2_p3_rad>>
        ELSE IF is_equal(p1_p2_rad + p2_p3_rad + (two_pi - p3_p1_rad), two_pi, tol)
        THEN <<TRUE, p2_p3_rad, p1_p2_rad>>
        ELSE IF is_equal(p1_p2_rad_lg + p2_p3_rad + p3_p1_rad, two_pi, tol)
        THEN <<TRUE, p1_p2_rad_lg, p2_p3_rad>>
        ELSE IF is_equal(p1_p2_rad + p2_p3_rad_lg + p3_p1_rad, two_pi, tol)
        THEN <<TRUE, p1_p2_rad, p2_p3_rad_lg>>
        ELSE <<FALSE, 0, 0>>

is_clockwise_inverted(p1, p2, p3) ==
    cross_product_magnitude(PointMinus(p1, p2), PointMinus(p3, p2)) < 0

\* The direction test of try_create_arc.
is_clockwise(p1, p2, p3) ==
    cross_product_magnitude(PointMinus(p1, p2), PointMinus(p3, p2)) > 0

\* The search for the angles of try_create_arc among the short angles between
\* the three points moved onto the circle.
search_angles(c, p1, p2, p3) ==
    The({find_angle(p1_p2_rad, p2_p3_rad, p3_p1_rad) :
             <<p1_p2_rad, p2_p3_rad, p3_p1_rad>> \in
                 {<<get_radians(c, p1, p2), get_radians(c, p2, p3),
                    get_radians(c, p3, p1)>>}})

\* The end of try_create_arc: the length test, the test of the smallest angle
\* and the sign of the angle, given the outcome of the search for the angles.
arc_of_angles(c, start_point, end_point, approximate_length, resolution, target_arc, found, clockwise) ==
    The({IF ~found[1]
         THEN <<FALSE, target_arc>>
         ELSE IF ~is_equal(length, approximate_length, resolution)
         THEN <<FALSE, target_arc>>
         ELSE IF angle_radians < MIN_ALLOWED_ARC_THETA
         THEN <<FALSE, target_arc>>
         ELSE <<TRUE,
                [center |-> c.center, radius |-> c.radius,
                 start_point |-> start_point, end_point |-> end_point,
                 length |-> length,
                 angle_radians |-> IF clockwise THEN -angle_radians ELSE angle_radians]>> :
             <<angle_radians, length>> \in
                 {<<found[2] + found[3], Div((found[2] + found[3]) * c.radius, 10000)>>}})

\* arc::try_create_arc: <<returned, target_arc afterwards>>.
\* A start, mid or end point at the center (0/0) or a circle of radius 0 (0/0
\* in get_radians) gives NaN angles; no comparison with a NaN is true, no sum
\* is found and the function returns false.
try_create_arc(c, start_point, mid_point, end_point, approximate_length, resolution, target_arc) ==
    IF \/ c.radius = 0
       \/ \E q \in {start_point, mid_point, end_point} :
              get_magnitude(PointMinus(q, c.center)) = 0
    THEN <<FALSE, target_arc>>
    ELSE The({The({arc_of_angles(c, start_point, end_point, approximate_length,
                                 resolution, target_arc, found,
                                 is_clockwise(p1, p2, p3)) :
                       found \in {search_angles(c, p1, p2, p3)}}) :
                  <<p1, p2, p3>> \in {<<get_closest_point(c, start_point),
                                        get_closest_point(c, mid_point),
                                        get_closest_point(c, end_point)>>}})

-----------------------------------------------------------------------------
(* Variables a specification does not use keep their initial values.       *)

shape_vars == <<points_, e_relative_, original_shape_length_, is_shape_,
                arc_circle_, resolution_mm_, min_segments_, max_segments_,
                ret, popped>>

resolution_vars == <<user_resolution, capacity, other_>>

driver_vars == <<pc, input, next_, emitted, window_ix>>

NoCall == [fn |-> "none"]

ShapeIdle ==
    /\ points_ = <<>>
    /\ e_relative_ = 0
    /\ original_shape_length_ = 0
    /\ is_shape_ = FALSE
    /\ arc_circle_ = DefaultCircle
    /\ resolution_mm_ = 0
    /\ min_segments_ = 3
    /\ max_segments_ = 3
    /\ ret = FALSE
    /\ popped = 0

ResolutionIdle == user_resolution = 0 /\ capacity = 3 /\ other_ = 0

DriverIdle ==
    /\ pc = "none"
    /\ input = <<>>
    /\ next_ = 1
    /\ emitted = {}
    /\ window_ix = <<>>

-----------------------------------------------------------------------------
(* circle::try_create_circle applied to three points of a grid.            *)

\* The grid's coordinates are -100, 0, 100, ... : GridN + 1 of them.
GridN == 2

GridCoords == {100 * (i - 1) : i \in 0..GridN}

GridPoints == {Point(x, y, z, 0) : x \in GridCoords, y \in GridCoords, z \in {0, 50}}

\* What the caller's circle holds before the call.
CallerCircles == {DefaultCircle, Circle(100, -100, 50, 300)}

InitCircle ==
    /\ \E p1 \in GridPoints, p2 \in GridPoints, p3 \in GridPoints, b \in CallerCircles :
           call = [fn |-> "try_create_circle", p1 |-> p1, p2 |-> p2, p3 |-> p3,
                   before |-> b, new_circle |-> b, returned |-> FALSE, done |-> FALSE]
    /\ ShapeIdle /\ ResolutionIdle /\ DriverIdle

CallTryCreateCircle ==
    /\ call.fn = "try_create_circle" /\ ~call.done
    /\ LET r == try_create_circle(call.p1, call.p2, call.p3, call.new_circle)
       IN  call' = [call EXCEPT !.returned = r[1], !.new_circle = r[2], !.done = TRUE]
    /\ UNCHANGED <<shape_vars, resolution_vars, driver_vars>>

NextCircle == CallTryCreateCircle

SpecCircle == InitCircle /\ [][NextCircle]_vars

\* Three points on one line of the XY plane (two coincident points included).
Collinear(p1, p2, p3) ==
    (p2.x - p1.x) * (p3.y - p1.y) - (p2.y - p1.y) * (p3.x - p1.x) = 0

\* The center and the radius are each rounded to the nearest unit, so a
\* distance from the center and the radius agree to within 2 units.
WithinRounding(x, y) == Abs(x - y) <= 2

\* C10: try_create_circle returns false exactly when p1, p2, p3 are collinear
\* in the XY plane, and then leaves the caller's circle as it was; when it
\* returns true, p1, p2 and p3 are at the same XY distance, the radius, from
\* the center (to within rounding), and center.z = p1.z.
C10_TryCreateCircle ==
    (call.fn = "try_create_circle" /\ call.done) =>
        LET c == call.new_circle
            Dist(p) == get_cartesian_distance(c.center.x, c.center.y, p.x, p.y)
        IN  /\ call.returned = ~Collinear(call.p1, call.p2, call.p3)
            /\ ~call.returned => c = call.before
            /\ call.returned =>
                  /\ \A p \in {call.p1, call.p2, call.p3} : WithinRounding(Dist(p), c.radius)
                  /\ c.center.z = call.p1.z

\* A circle was fitted through three points of differing z, over a caller's
\* circle that held something else.
C10_Witness ==
    /\ call.fn = "try_create_circle" /\ call.done /\ call.returned
    /\ call.p1.z # call.p2.z
    /\ call.new_circle # call.before
    /\ call.new_circle.radius > 100

-----------------------------------------------------------------------------
(* arc::try_create_arc applied to three sample points of a circle.         *)

\* Twelve directions whose points lie exactly on a circle of radius 5 r, in
\* counter-clockwise order, and the angle of each to the nearest angle unit.
SampleUnit ==
    << <<5, 0>>, <<4, 3>>, <<3, 4>>, <<0, 5>>, <<-3, 4>>, <<-4, 3>>,
       <<-5, 0>>, <<-4, -3>>, <<-3, -4>>, <<0, -5>>, <<3, -4>>, <<4, -3>> >>

SampleAngle ==
    <<0, 6435, 9273, 15708, 22143, 24981, 31416, 37851, 40689, 47124, 53559, 56397>>

Samples == 1..Len(SampleUnit)

\* The start points: one of each kind (the picture repeats every quarter turn).
StartSamples == {1, 2, 3}

\* Sample k of circle c (c.radius is a multiple of 5), carrying extrusion e.
SamplePoint(c, k, e) ==
    Point(c.center.x + (c.radius \div 5) * SampleUnit[k][1],
          c.center.y + (c.radius \div 5) * SampleUnit[k][2],
          c.center.z, e)

ArcCircles == {Circle(0, 0, 0, 500), Circle(300, -200, 20, 250)}

\* approximate_length is drawn from 0, 200, ..., 200 * MaxApprox.
MaxApprox == 16

ApproxLengths == {200 * n : n \in 0..MaxApprox}

ArcResolutions == {5, 110}

InitArc ==
    /\ \E c \in ArcCircles, i \in StartSamples, j \in Samples, k \in Samples,
          len \in ApproxLengths, res \in ArcResolutions :
           call = [fn |-> "try_create_arc", c |-> c, i |-> i, j |-> j, k |-> k,
                   approximate_length |-> len, resolution |-> res, done |-> 0,
                   returned |-> FALSE, target_arc |-> NoArc,
                   returned_rev |-> FALSE, target_arc_rev |-> NoArc]
    /\ ShapeIdle /\ ResolutionIdle /\ DriverIdle

\* try_create_arc(c, start, mid, end, ...).
CallTryCreateArc ==
    /\ call.fn = "try_create_arc" /\ call.done = 0
    /\ LET r == try_create_arc(call.c, SamplePoint(call.c, call.i, 0),
                               SamplePoint(call.c, call.j, 0),
                               SamplePoint(call.c, call.k, 0),
                               call.approximate_length, call.resolution,
                               call.target_arc)
       IN  call' = [call EXCEPT !.returned = r[1], !.target_arc = r[2], !.done = 1]
    /\ UNCHANGED <<shape_vars, resolution_vars, driver_vars>>

\* The same call with start and end exchanged.
CallTryCreateArcReversed ==
    /\ call.fn = "try_create_arc" /\ call.done = 1
    /\ LET r == try_create_arc(call.c, SamplePoint(call.c, call.k, 0),
                               SamplePoint(call.c, call.j, 0),
                               SamplePoint(call.c, call.i, 0),
                               call.approximate_length, call.resolution,
                               call.target_arc_rev)
       IN  call' = [call EXCEPT !.returned_rev = r[1], !.target_arc_rev = r[2],
                                !.done = 2]
    /\ UNCHANGED <<shape_vars, resolution_vars, driver_vars>>

NextArc == CallTryCreateArc \/ CallTryCreateArcReversed

SpecArc == InitArc /\ [][NextArc]_vars

\* The counter-clockwise angle from sample a to sample b, in 0 .. 2 pi.
CcwSweep(a, b) == (SampleAngle[b] - SampleAngle[a]) % (2 * PI_DOUBLE)

PairwiseDistinct(i, j, k) == i # j /\ j # k /\ i # k

\* Going counter-clockwise from i, sample j comes before sample k.
TraversedCcw(i, j, k) == CcwSweep(i, j) < CcwSweep(i, k)

\* The angular extent of the arc from i to k that passes through j.
Extent(i, j, k) ==
    IF TraversedCcw(i, j, k) THEN CcwSweep(i, k) ELSE CcwSweep(k, i)

\* C8: for start, mid, end in order along a circle, a successful
\* try_create_arc returns a positive angle when they are traversed
\* counter-clockwise and a negative one when clockwise, whatever the sweep;
\* with start and end exchanged it succeeds as well and returns the same
\* magnitude with the opposite sign.
C8_ArcSign ==
    (call.fn = "try_create_arc" /\ PairwiseDistinct(call.i, call.j, call.k)) =>
        /\ (call.done >= 1 /\ call.returned) =>
              IF TraversedCcw(call.i, call.j, call.k)
              THEN call.target_arc.angle_radians > 0
              ELSE call.target_arc.angle_radians < 0
        /\ (call.done = 2 /\ call.returned) =>
              /\ call.returned_rev
              /\ call.target_arc_rev.angle_radians = -call.target_arc.angle_radians

\* A clockwise arc of more than a half circle and its reverse were created.
C8_Witness ==
    /\ call.fn = "try_create_arc" /\ call.done = 2 /\ call.returned
    /\ PairwiseDistinct(call.i, call.j, call.k)
    /\ ~TraversedCcw(call.i, call.j, call.k)
    /\ Extent(call.i, call.j, call.k) > PI_DOUBLE
    /\ call.target_arc_rev.angle_radians > PI_DOUBLE

\* C9: for pairwise distinct start, mid, end on the circle, an
\* approximate_length within resolution of the true arc length and a sweep of
\* at least MIN_ALLOWED_ARC_THETA, try_create_arc succeeds, |angle_radians| is
\* the angular extent of the arc from start to end through mid, and
\* length = |angle_radians| * radius.
C9_ArcExtent ==
    LET extent == Extent(call.i, call.j, call.k)
        true_length == Div(extent * call.c.radius, 10000)
    IN  ( /\ call.fn = "try_create_arc" /\ call.done >= 1
          /\ PairwiseDistinct(call.i, call.j, call.k)
          /\ Abs(true_length - call.approximate_length) < call.resolution
          /\ extent >= MIN_ALLOWED_ARC_THETA ) =>
            /\ call.returned
            /\ Abs(call.target_arc.angle_radians) = extent
            /\ call.target_arc.length = true_length

\* An arc of more than a half circle was created whose first chord is itself
\* more than a half circle away.
C9_Witness ==
    /\ call.fn = "try_create_arc" /\ call.done >= 1 /\ call.returned
    /\ PairwiseDistinct(call.i, call.j, call.k)
    /\ Extent(call.i, call.j, call.k) > PI_DOUBLE
    /\ IF TraversedCcw(call.i, call.j, call.k)
       THEN CcwSweep(call.i, call.j) > PI_DOUBLE
       ELSE CcwSweep(call.j, call.i) > PI_DOUBLE

-----------------------------------------------------------------------------
(* The segmented arc: the window and its operations.  An accumulator is    *)
(* the record of its fields; the variables hold the fields of the one the  *)
(* driver feeds.                                                           *)

\* segmented_shape::segmented_shape(min_segments, max_segments, resolution_mm):
\* the fields after construction; arc_circle_ is default-constructed.
segmented_shape_one_more(min_segments, max_segments, resolution_mm) ==
    [max_segments_ |-> max_segments + 1,
     resolution_mm_ |-> Div(resolution_mm, 2),
     e_relative_ |-> 0,
     is_shape_ |-> FALSE,
     min_segments_ |-> min_segments,
     original_shape_length_ |-> 0,
     points_ |-> <<>>,
     arc_circle_ |-> DefaultCircle]

segmented_shape(min_segments, max_segments, resolution_mm) ==
    [max_segments_ |-> max_segments,
     resolution_mm_ |-> Div(resolution_mm, 2),
     e_relative_ |-> 0,
     is_shape_ |-> FALSE,
     min_segments_ |-> min_segments,
     original_shape_length_ |-> 0,
     points_ |-> <<>>,
     arc_circle_ |-> DefaultCircle]

\* The accumulator the variables hold.
This ==
    [max_segments_ |-> max_segments_,
     resolution_mm_ |-> resolution_mm_,
     e_relative_ |-> e_relative_,
     is_shape_ |-> is_shape_,
     min_segments_ |-> min_segments_,
     original_shape_length_ |-> original_shape_length_,
     points_ |-> points_,
     arc_circle_ |-> arc_circle_]

\* The variables hold accumulator s in the next state.
Becomes(s) ==
    /\ max_segments_' = s.max_segments_
    /\ resolution_mm_' = s.resolution_mm_
    /\ e_relative_' = s.e_relative_
    /\ is_shape_' = s.is_shape_
    /\ min_segments_' = s.min_segments_
    /\ original_shape_length_' = s.original_shape_length_
    /\ points_' = s.points_
    /\ arc_circle_' = s.arc_circle_

\* Every point of a window lies on circle c within resolution_mm.
does_circle_fit_points_(c, window, resolution_mm) ==
    \A i \in 1..Len(window) : is_point_on_circle(c, window[i], resolution_mm)

\* The distance d of step 1: from the last point of the window to p.
segment_length(s, p) ==
    IF Len(s.points_) = 0 THEN 0
    ELSE LET last == s.points_[Len(s.points_)]
         IN  get_cartesian_distance(last.x, last.y, p.x, p.y)

\* The accumulator after p was appended with the sums updated.
appended(s, p, e_relative, is_shape, arc_circle) ==
    [s EXCEPT !.points_ = Append(s.points_, p),
              !.original_shape_length_ = s.original_shape_length_ + segment_length(s, p),
              !.e_relative_ = s.e_relative_ + e_relative,
              !.is_shape_ = is_shape,
              !.arc_circle_ = arc_circle]

\* segmented_arc::try_add_point(p, e_relative): <<accepted, the accumulator
\* afterwards>>.
try_add_point(s, p, e_relative) ==
    LET n == Len(s.points_)
    IN  IF n >= s.max_segments_ THEN <<FALSE, s>>
        ELSE IF n < 2 THEN <<TRUE, appended(s, p, e_relative, FALSE, s.arc_circle_)>>
        ELSE IF n = 2
        THEN The({IF fit[1]
                  THEN <<TRUE, appended(s, p, e_relative, n + 1 >= s.min_segments_, fit[2])>>
                  ELSE <<TRUE, appended(s, p, e_relative, FALSE, s.arc_circle_)>> :
                      fit \in {try_create_circle(s.points_[1], s.points_[2], p,
                                                 s.arc_circle_)}})
        ELSE IF ~is_point_on_circle(s.arc_circle_, p, s.resolution_mm_)
        THEN <<FALSE, s>>
        ELSE IF ~does_circle_fit_points_(s.arc_circle_, s.points_, s.resolution_mm_)
        THEN <<FALSE, s>>
        ELSE <<TRUE, appended(s, p, e_relative, TRUE, s.arc_circle_)>>

\* pop_front that takes the point from the back of the window.
pop_front_from_back(window) == SubSeq(window, 1, Len(window) - 1)

\* segmented_shape::pop_front() and pop_back(): the window afterwards.
pop_front(window) == Tail(window)

pop_back(window) == SubSeq(window, 1, Len(window) - 1)

\* segmented_arc::pop_front(e_relative) and pop_back(e_relative).
arc_pop_front(s, e_relative) ==
    [s EXCEPT !.e_relative_ = s.e_relative_ - e_relative,
              !.points_ = pop_front(s.points_)]

arc_pop_back(s, e_relative) ==
    [s EXCEPT !.e_relative_ = s.e_relative_ - e_relative,
              !.points_ = pop_back(s.points_)]

\* segmented_shape::clear().
clear(s) ==
    [s EXCEPT !.points_ = <<>>,
              !.is_shape_ = FALSE,
              !.e_relative_ = 0,
              !.original_shape_length_ = 0]

\* segmented_arc::is_shape().
is_shape(s) == s.is_shape_

\* segmented_arc::try_get_arc: <<returned, target_arc afterwards>>; start is
\* the front of the window, end its back, mid the point halfway.
try_get_arc(s, target_arc) ==
    LET count == Len(s.points_)
    IN  IF ~is_shape(s) \/ count = 0 THEN <<FALSE, target_arc>>
        ELSE try_create_arc(s.arc_circle_, s.points_[1], s.points_[count \div 2 + 1],
                            s.points_[count], s.original_shape_length_,
                            s.resolution_mm_, target_arc)

-----------------------------------------------------------------------------
(* The accumulator under any sequence of its operations.                   *)

\* The capacity of the window (max_segments).
MaxSegments == 4

MinSegmentsChoices == {3, 4}

UserResolutions == {10}

\* The points popped from one window before it is cleared.
MaxPops == 1

\* The endpoints fed to the window: samples of the circle of radius 500 about
\* the origin, and the origin.  Each carries its own extrusion delta.
WindowCircle == Circle(0, 0, 0, 500)

OnCircle == {SamplePoint(WindowCircle, k, 1 + (k % 2)) : k \in 1..3}

AtOrigin == {Point(0, 0, 0, 1)}

WindowPoints == OnCircle \cup AtOrigin

InitShape(min_segments, max_segments, resolution_mm) ==
    LET s == segmented_shape(min_segments, max_segments, resolution_mm)
    IN  /\ points_ = s.points_
        /\ e_relative_ = s.e_relative_
        /\ original_shape_length_ = s.original_shape_length_
        /\ is_shape_ = s.is_shape_
        /\ min_segments_ = s.min_segments_
        /\ max_segments_ = s.max_segments_
        /\ resolution_mm_ = s.resolution_mm_
        /\ arc_circle_ = s.arc_circle_
        /\ ret = FALSE
        /\ popped = 0
        /\ user_resolution = resolution_mm
        /\ capacity = max_segments

Init ==
    /\ \E m \in MinSegmentsChoices, r \in UserResolutions : InitShape(m, MaxSegments, r)
    /\ other_ = 0
    /\ call = NoCall
    /\ DriverIdle

other_vars == <<user_resolution, capacity, other_, call, driver_vars>>

\* try_add_point(p, p.e_relative).
AddPoint ==
    \E p \in WindowPoints :
        LET r == try_add_point(This, p, p.e_relative)
        IN  /\ Becomes(r[2])
            /\ ret' = r[1]
            /\ UNCHANGED <<popped, other_vars>>

\* pop_front(e_relative); the caller passes the removed point's own delta.
PopFrontPoint ==
    /\ Len(points_) > 0 /\ popped < MaxPops
    /\ Becomes(arc_pop_front(This, Head(points_).e_relative))
    /\ popped' = popped + 1
    /\ UNCHANGED <<ret, other_vars>>

\* pop_back(e_relative).
PopBackPoint ==
    /\ Len(points_) > 0 /\ popped < MaxPops
    /\ Becomes(arc_pop_back(This, points_[Len(points_)].e_relative))
    /\ popped' = popped + 1
    /\ UNCHANGED <<ret, other_vars>>

ClearWindow ==
    /\ Becomes(clear(This))
    /\ popped' = 0
    /\ UNCHANGED <<ret, other_vars>>

Next == AddPoint \/ PopFrontPoint \/ PopBackPoint \/ ClearWindow

Spec == Init /\ [][Next]_vars

RECURSIVE SumERelative(_, _)
\* The sum of the e_relative supplied with points from..count of a window.
SumERelative(window, from) ==
    IF from > Len(window) THEN 0
    ELSE window[from].e_relative + SumERelative(window, from + 1)

RECURSIVE PathLength(_)
\* The sum of the straight-line distances between successive points.
PathLength(window) ==
    IF Len(window) < 2 THEN 0
    ELSE get_cartesian_distance(window[1].x, window[1].y, window[2].x, window[2].y)
         + PathLength(Tail(window))

\* C1: after accepted try_add_point calls on an empty window, with no pop,
\* e_relative_sum is the sum of the e_relative supplied with points
\* 1..count-1: the value supplied with point 0 is not part of it.
C1_ERelativeSumSkipsFirst ==
    popped = 0 => e_relative_ = SumERelative(points_, 2)

\* C2: when is_shape is true, every point of the window lies within
\* resolution_mm of arc_circle.
C2_ShapePointsOnCircle ==
    is_shape_ =>
        \A i \in 1..Len(points_) :
            Abs(get_cartesian_distance(points_[i].x, points_[i].y,
                                       arc_circle_.center.x, arc_circle_.center.y)
                - arc_circle_.radius) < resolution_mm_

\* A shape whose first three points are collinear: no circle was fitted when
\* the third was accepted, and the fourth was checked against the circle of an
\* earlier window.
C2_Witness ==
    /\ is_shape_ /\ popped = 0 /\ Len(points_) >= 4
    /\ Collinear(points_[1], points_[2], points_[3])
    /\ arc_circle_.radius > 0

\* C3: is_shape = true implies window.count >= min_segments.
C3_ShapeHasMinSegments ==
    is_shape_ => Len(points_) >= min_segments_

\* C4: original_path_length is the sum of the distances between the
\* successive points now in the window.
C4_PathLengthOfWindow ==
    original_shape_length_ = PathLength(points_)

\* C5: the window never holds more than max_segments points; a
\* try_add_point made when it holds max_segments returns false, whatever the
\* point, and leaves the window as it was.
C5_Capacity ==
    /\ [](Len(points_) <= capacity)
    /\ [][(AddPoint /\ Len(points_) = capacity)
             => (ret' = FALSE /\ points_' = points_)]_vars

\* A full window that is a shape refused a point that lies on arc_circle.
C5_Witness ==
    /\ Len(points_) = capacity
    /\ is_shape_ /\ popped = 0 /\ ret = FALSE
    /\ \E p \in WindowPoints :
           get_cartesian_distance(p.x, p.y, arc_circle_.center.x, arc_circle_.center.y)
               = arc_circle_.radius

-----------------------------------------------------------------------------
(* The stored resolution: the constructor, set_resolution_mm and           *)
(* assignment.  user_resolution is the resolution the caller supplied      *)
(* most recently to the accumulator the variables hold; other_ is a second *)
(* accumulator, the right-hand side of assignments, with the resolution    *)
(* its caller supplied most recently.                                      *)

\* The user resolutions are the even values up to 2 * MaxResolution.
MaxResolution == 6

Resolutions == {2 * k : k \in 1..MaxResolution}

\* segmented_shape::get_resolution_mm().
get_resolution_mm(s) == s.resolution_mm_

\* segmented_shape::set_resolution_mm(resolution_mm).
set_resolution_mm(s, resolution_mm) == [s EXCEPT !.resolution_mm_ = resolution_mm]

\* segmented_shape::operator=(obj): the left-hand side afterwards.
assign(s, obj) ==
    [s EXCEPT !.points_ = obj.points_,
              !.original_shape_length_ = obj.original_shape_length_,
              !.e_relative_ = obj.e_relative_,
              !.is_shape_ = obj.is_shape_,
              !.max_segments_ = obj.max_segments_,
              !.resolution_mm_ = obj.resolution_mm_]

InitResolution ==
    /\ \E r \in Resolutions : InitShape(3, MaxSegments, r)
    /\ \E r \in Resolutions :
           other_ = [shape |-> segmented_shape(3, MaxSegments, r), user_resolution |-> r]
    /\ call = NoCall
    /\ DriverIdle

unchanged_by_resolution == <<ret, popped, capacity, call, driver_vars>>

Construct ==
    \E r \in Resolutions :
        /\ Becomes(segmented_shape(3, MaxSegments, r))
        /\ user_resolution' = r
        /\ UNCHANGED <<other_, unchanged_by_resolution>>

SetResolutionMm ==
    \E r \in Resolutions :
        /\ Becomes(set_resolution_mm(This, r))
        /\ user_resolution' = r
        /\ UNCHANGED <<other_, unchanged_by_resolution>>

ConstructOther ==
    \E r \in Resolutions :
        /\ other_' = [shape |-> segmented_shape(3, MaxSegments, r), user_resolution |-> r]
        /\ UNCHANGED <<shape_vars, user_resolution, unchanged_by_resolution>>

SetOtherResolutionMm ==
    \E r \in Resolutions :
        /\ other_' = [shape |-> set_resolution_mm(other_.shape, r), user_resolution |-> r]
        /\ UNCHANGED <<shape_vars, user_resolution, unchanged_by_resolution>>

Assign ==
    /\ Becomes(assign(This, other_.shape))
    /\ user_resolution' = other_.user_resolution
    /\ UNCHANGED <<other_, unchanged_by_resolution>>

NextResolution ==
    Construct \/ SetResolutionMm \/ ConstructOther \/ SetOtherResolutionMm \/ Assign

SpecResolution == InitResolution /\ [][NextResolution]_vars

\* C7: the resolution stored in the accumulator, which get_resolution_mm
\* returns and the fit tests use, is half of the resolution the user supplied
\* most recently, by the constructor, set_resolution_mm or an assignment.
C7_StoredResolutionIsHalf ==
    2 * get_resolution_mm(This) = user_resolution

-----------------------------------------------------------------------------
(* The driver under the emission discipline: it feeds the endpoints of its *)
(* input one by one; emitted records which of them went out as a linear    *)
(* move and which as part of an arc; window_ix are the input positions of  *)
(* the points in the window.                                               *)

\* The number of endpoints of an input.
MaxInput == 4

DriverResolutions == {10, 40}

Inputs == UNION {[1..n -> WindowPoints] : n \in 0..MaxInput}

InitDriver ==
    /\ \E r \in DriverResolutions : InitShape(3, MaxSegments, r)
    /\ other_ = 0
    /\ call = NoCall
    /\ input \in Inputs
    /\ next_ = 1
    /\ pc = "feed"
    /\ emitted = [line |-> {}, arc |-> {}]
    /\ window_ix = <<>>

unchanged_by_driver == <<popped, user_resolution, capacity, other_, call, input>>

\* try_add_point of the next endpoint returns true.
DriverAccepted ==
    /\ pc = "feed" /\ next_ <= Len(input)
    /\ \E s \in {This}, p \in {input[next_]} : \E r \in {try_add_point(s, p, p.e_relative)} :
           /\ r[1]
           /\ Becomes(r[2])
           /\ ret' = TRUE
    /\ window_ix' = Append(window_ix, next_)
    /\ next_' = next_ + 1
    /\ UNCHANGED <<pc, emitted, unchanged_by_driver>>

\* try_add_point of the next endpoint returns false.
DriverRejected ==
    /\ pc = "feed" /\ next_ <= Len(input)
    /\ \E s \in {This}, p \in {input[next_]} : \E r \in {try_add_point(s, p, p.e_relative)} :
           /\ ~r[1]
           /\ Becomes(r[2])
           /\ ret' = FALSE
    /\ pc' = "rejected"
    /\ UNCHANGED <<next_, window_ix, emitted, unchanged_by_driver>>

\* (a), (b): try_get_arc succeeds; the arc is emitted, the window cleared and
\* restarted from the end point of the arc plus the rejected endpoint.
DriverEmitArc ==
    /\ pc = "rejected"
    /\ \E s \in {This} : try_get_arc(s, NoArc)[1]
    /\ \E cleared \in {clear(This)}, last \in {points_[Len(points_)]}, p \in {input[next_]} :
           \E restarted \in {try_add_point(cleared, last, last.e_relative)[2]} :
               \E r \in {try_add_point(restarted, p, p.e_relative)} :
                   Becomes(r[2])
    /\ emitted' = [emitted EXCEPT !.arc = @ \cup {window_ix[i] : i \in 1..Len(window_ix)}]
    /\ window_ix' = <<window_ix[Len(window_ix)], next_>>
    /\ next_' = next_ + 1
    /\ ret' = TRUE
    /\ pc' = "feed"
    /\ UNCHANGED unchanged_by_driver

\* (c): try_get_arc fails; the front of the window is popped and emitted as a
\* linear move, and the rejected endpoint is tried again.
DriverPopAndRetry ==
    /\ pc = "rejected"
    /\ \E s \in {This} : ~try_get_arc(s, NoArc)[1]
    /\ \E s \in {arc_pop_front(This, Head(points_).e_relative)} : Becomes(s)
    /\ emitted' = [emitted EXCEPT !.line = @ \cup {Head(window_ix)}]
    /\ window_ix' = pop_front(window_ix)
    /\ pc' = "feed"
    /\ UNCHANGED <<ret, next_, unchanged_by_driver>>

\* The input ended: the window is flushed.
DriverEndOfInput ==
    /\ pc = "feed" /\ next_ > Len(input)
    /\ pc' = "flush"
    /\ UNCHANGED <<shape_vars, ret, next_, emitted, window_ix, unchanged_by_driver>>

DriverFlushArc ==
    /\ pc = "flush" /\ Len(points_) > 0
    /\ \E s \in {This} : try_get_arc(s, NoArc)[1]
    /\ \E s \in {clear(This)} : Becomes(s)
    /\ emitted' = [emitted EXCEPT !.arc = @ \cup {window_ix[i] : i \in 1..Len(window_ix)}]
    /\ window_ix' = <<>>
    /\ UNCHANGED <<pc, ret, next_, unchanged_by_driver>>

DriverFlushLine ==
    /\ pc = "flush" /\ Len(points_) > 0
    /\ \E s \in {This} : ~try_get_arc(s, NoArc)[1]
    /\ \E s \in {arc_pop_front(This, Head(points_).e_relative)} : Becomes(s)
    /\ emitted' = [emitted EXCEPT !.line = @ \cup {Head(window_ix)}]
    /\ window_ix' = pop_front(window_ix)
    /\ UNCHANGED <<pc, ret, next_, unchanged_by_driver>>

DriverDone ==
    /\ pc = "flush" /\ Len(points_) = 0
    /\ pc' = "done"
    /\ UNCHANGED <<shape_vars, ret, next_, emitted, window_ix, unchanged_by_driver>>

NextDriver ==
    \/ DriverAccepted
    \/ DriverRejected
    \/ DriverEmitArc
    \/ DriverPopAndRetry
    \/ DriverEndOfInput
    \/ DriverFlushArc
    \/ DriverFlushLine
    \/ DriverDone

\* The driver is one thread that runs until its input is consumed and the
\* window flushed: it never stops while a step is left.
SpecDriver == InitDriver /\ [][NextDriver]_vars /\ WF_vars(NextDriver)

=============================================================================
